---- MODULE Spec2Model ----
(***************************************************************************)
(* A model of the trading portfolio manager: the wallet sheets kept in the *)
(* spreadsheet (WalletManager), the portfolio's wallet set                 *)
(* (PortfolioManager) and the bot registry with its update cycle           *)
(* (BotConnector).                                                         *)
(*                                                                         *)
(* A wallet sheet is a grid of rows.  Rows 1-5 are the header block that   *)
(* _create_sheet_structure writes (row 3 is a row of empty strings), rows  *)
(* 6.. hold the trade log.  The summary cells B2, D2 and F2 and the        *)
(* running-balance column G hold spreadsheet formulas; the model evaluates *)
(* them as the spreadsheet does when the sheet is read.                    *)
(*                                                                         *)
(* Money amounts are integers (the source uses floats; all amounts of the  *)
(* model are small integers, for which float arithmetic is exact).         *)
(***************************************************************************)
EXTENDS Integers, Sequences, FiniteSets, TLC

\* ---------------------------------------------------------------- bounds
\* successful add_trade calls followed per wallet
MaxTrades == 2
\* length of a batch returned by a bot's endpoint
MaxBatch == 2

Wallets == {"w1", "w2"}
Bots == {"b1", "b2", "b3"}

\* the registrations tried: bot, wallet, whether an api_endpoint is given
Registrations ==
    { <<"b1", "w1", TRUE>>, <<"b2", "w1", TRUE>>, <<"b3", "w2", FALSE>> }

\* ------------------------------------------------- values of a JSON payload
Num(n) == [k |-> "num", n |-> n, s |-> ""]
Str(s) == [k |-> "str", n |-> 0, s |-> s]
\* null, and the literals NaN and Infinity, which json.loads reads as floats
Null == [k |-> "null", n |-> 0, s |-> ""]
NaN == [k |-> "nan", n |-> 0, s |-> ""]
Infinity == [k |-> "inf", n |-> 0, s |-> ""]

\* str.upper() on the action strings of the model
Upper(s) ==
    CASE s \in {"buy", "Buy"} -> "BUY"
      [] s \in {"sell", "sElL"} -> "SELL"
      [] s = "hold" -> "HOLD"
      [] OTHER -> s

\* float(x): ok with the number, or the ValueError/TypeError it raises;
\* float() returns nan and inf for float values nan and inf and for the
\* strings "nan" and "inf" (finite: whether the float is a finite number)
ParseFloat(v) ==
    CASE v.k = "num" -> [ok |-> TRUE, n |-> v.n, finite |-> TRUE]
      [] v.k = "str" /\ v.s = "1" -> [ok |-> TRUE, n |-> 1, finite |-> TRUE]
      [] v.k = "str" /\ v.s = "2" -> [ok |-> TRUE, n |-> 2, finite |-> TRUE]
      [] v.k \in {"nan", "inf"} -> [ok |-> TRUE, n |-> 0, finite |-> FALSE]
      [] v.k = "str" /\ v.s \in {"nan", "inf"} ->
            [ok |-> TRUE, n |-> 0, finite |-> FALSE]
      [] OTHER -> [ok |-> FALSE, n |-> 0, finite |-> FALSE]

\* dict.get(key, default)
Get(d, key, default) == IF key \in DOMAIN d THEN d[key] ELSE default

\* ------------------------------------------------------- the wallet sheet
BlankRow == [kind |-> "blank"]
HeaderRow(text) == [kind |-> "header", text |-> text]

\* summary_headers: the five rows _create_sheet_structure writes
summary_headers ==
    << HeaderRow("WALLET SUMMARY"), HeaderRow("Initial Investment:"), BlankRow,
       HeaderRow("TRADE LOG"), HeaderRow("Date") >>

\* any(row): a row with at least one non-empty cell
AnyCell(row) == row.kind # "blank"

\* worksheet.update(range A<r>:H<r>, [row]): rows between the old end of the
\* data and r stay empty
UpdateRow(rows, r, row) ==
    [i \in 1..(IF r > Len(rows) THEN r ELSE Len(rows)) |->
        IF i = r THEN row ELSE IF i <= Len(rows) THEN rows[i] ELSE BlankRow]

\* first trade row of a wallet sheet
FirstTradeRow == 6

\* the rows of the list comprehension [row for row in values if any(row)]
NonEmptyCount(rows) == Cardinality({i \in 1..Len(rows) : AnyCell(rows[i])})

Max(a, b) == IF a >= b THEN a ELSE b

\* next_row = max(6, len([row for row in values if any(row)]) + 1)
NextRow(rows) == Max(FirstTradeRow, NonEmptyCount(rows) + 1)

\* _calculate_running_balance_formula: the formula text depends on the row
running_balance_formula(row_num) ==
    IF row_num = FirstTradeRow THEN "first" ELSE "chain"

\* IF(B="BUY",F,IF(B="SELL",-F,0))
SignedValue(action, total) ==
    IF action = "BUY" THEN total ELSE IF action = "SELL" THEN 0 - total ELSE 0

\* value of cell G<r>: the running-balance formula of row r, evaluated
RECURSIVE CellG(_, _)
CellG(rows, r) ==
    IF r < 1 \/ r > Len(rows) \/ rows[r].kind # "trade" THEN 0
    ELSE IF rows[r].formula = "first"
         THEN SignedValue(rows[r].action, rows[r].total_value)
         ELSE CellG(rows, r - 1) + SignedValue(rows[r].action, rows[r].total_value)

TradeRowIdx(rows) == {i \in FirstTradeRow..Len(rows) : rows[i].kind = "trade"}

\* SUMPRODUCT((B="BUY")*(F)) over the trade rows S
RECURSIVE SumBuy(_, _)
SumBuy(S, rows) ==
    IF S = {} THEN 0
    ELSE LET i == CHOOSE j \in S : TRUE
         IN (IF rows[i].action = "BUY" THEN rows[i].total_value ELSE 0)
            + SumBuy(S \ {i}, rows)

\* a cell read: a number, or no number (empty cell or an error value)
CellNum(n) == [ok |-> TRUE, n |-> n]
CellNone == [ok |-> FALSE, n |-> 0]

HasSummary(rows) == Len(rows) >= 2 /\ rows[2].kind = "header"

\* B2: =SUMPRODUCT((B6:B1000="BUY")*(F6:F1000))
CellB2(rows) ==
    IF HasSummary(rows) THEN CellNum(SumBuy(TradeRowIdx(rows), rows))
    ELSE CellNone

\* D2: =IF(ROW(G1000:G6)>0,INDEX(G6:G1000,COUNTA(G6:G1000)),0)
\* ROW(..) is 6, so the INDEX branch is always taken; INDEX(range, 0) is the
\* whole range, which does not fit the cell (an error value)
CellD2(rows) ==
    IF ~HasSummary(rows) THEN CellNone
    ELSE LET n == Cardinality(TradeRowIdx(rows))
             r == FirstTradeRow + n - 1
         IN IF n = 0 THEN CellNone
            ELSE IF rows[r].kind = "trade" THEN CellNum(CellG(rows, r))
            ELSE CellNone

\* F2: =D2-B2
CellF2(rows) ==
    IF CellD2(rows).ok /\ CellB2(rows).ok
    THEN CellNum(CellD2(rows).n - CellB2(rows).n)
    ELSE CellNone

\* a number that is no integer, as the fraction num/den
Frac(num, den) == [num |-> num, den |-> den]
FracZero == Frac(0, 1)
FracIsZero(f) == f.num = 0 /\ f.den # 0
\* f - 1, f * k and f = g on fractions
FracMinusOne(f) == Frac(f.num - f.den, f.den)
FracTimes(f, k) == Frac(f.num * k, f.den)
FracEq(f, g) == f.num * g.den = g.num * f.den

RECURSIVE Pow(_, _)
Pow(x, e) == IF e = 0 THEN 1 ELSE x * Pow(x, e - 1)

\* DAYS(TODAY(), MIN(A6:A1000)): the trades of the model carry the default
\* date of add_trade, the day of the call, and are read the same day
days_since_first_trade == 0

\* days of a year in the APY formula
DaysPerYear == 365

\* H2: =IF(AND(B2>0,D2>0,COUNTA(A6:A1000)>0),
\*         POWER((D2/B2),(365/MAX(1,DAYS(TODAY(),MIN(A6:A1000)))))-1,0)*100
\* an error value in B2 or D2 makes the whole cell an error value
CellH2(rows) ==
    IF ~(CellB2(rows).ok /\ CellD2(rows).ok) THEN CellNone
    ELSE LET b2 == CellB2(rows).n
             d2 == CellD2(rows).n
             e == DaysPerYear \div Max(1, days_since_first_trade)
         IN IF b2 > 0 /\ d2 > 0 /\ TradeRowIdx(rows) # {}
            THEN IF d2 = b2 THEN CellNum(Frac(0, 1))
                 ELSE CellNum(Frac((Pow(d2, e) - Pow(b2, e)) * 100, Pow(b2, e)))
            ELSE CellNum(Frac(0, 1))

\* _get_cell_value(cell, default=0)
get_cell_value(cell, default) == IF cell.ok THEN cell.n ELSE default

\* ------------------------------------------------------- trade payloads
\* the dictionaries handed to add_trade and returned by a bot's endpoint
T_buy == [action |-> Str("buy"), asset |-> Str("BTC"), quantity |-> Num(1),
          price |-> Num(2)]
T_sell == [action |-> Str("SELL"), asset |-> Str("BTC"), quantity |-> Num(1),
           price |-> Num(1), total_value |-> Num(3)]
T_buy2 == [action |-> Str("BUY"), asset |-> Str("ETH"), quantity |-> Str("2"),
           price |-> Num(2)]
T_hold == [action |-> Str("HOLD"), asset |-> Str("BTC"), quantity |-> Num(1),
           price |-> Num(2)]
T_missing == [asset |-> Str("BTC")]
T_badqty == [action |-> Str("BUY"), asset |-> Str("BTC"), quantity |-> Str("abc"),
             price |-> Num(2)]
T_zeroqty == [action |-> Str("BUY"), asset |-> Str("BTC"), quantity |-> Num(0),
              price |-> Num(2)]

T_numaction == [action |-> Num(1), asset |-> Str("BTC"), quantity |-> Num(1),
                price |-> Num(2)]
\* an element of a batch that is a number
NotAnObject == Num(5)

TradeInputs == {T_buy, T_sell, T_buy2, T_hold, T_missing, T_badqty}

\* payloads that differ in what the ledger is to refuse: a quantity of 0 or
\* below, an action that is neither BUY nor SELL
T_negqty == [action |-> Str("SELL"), asset |-> Str("BTC"), quantity |-> Num(-1),
             price |-> Num(2)]
DomainInputs == {T_buy, T_sell, T_hold, T_zeroqty, T_negqty}

\* outcome of the spreadsheet calls of one add_trade
StoreOutcomes == {"ok", "read_fail", "write_fail"}

\* the outcomes followed inside a bot cycle (a failed read and a failed write
\* end add_trade the same way)
CycleStoreOutcomes == {"ok", "write_fail"}

\* ------------------------------------------------------- BotConnector
\* a JSON object, as opposed to a number, a string or null
IsObject(v) == "k" \notin DOMAIN v

\* a validator that compares the action as it is written
validate_trade_data_case_sensitive(trade_data) ==
    IF ~IsObject(trade_data)
    THEN (IF trade_data.k = "str" THEN "invalid" ELSE "raise")
    ELSE IF \E f \in {"action", "asset", "quantity", "price"} : f \notin DOMAIN trade_data
    THEN "invalid"
    ELSE IF ~ParseFloat(trade_data["quantity"]).ok THEN "invalid"
    ELSE IF ~ParseFloat(trade_data["price"]).ok THEN "invalid"
    ELSE IF trade_data["action"].k # "str" THEN "raise"
    ELSE IF trade_data["action"].s \notin {"BUY", "SELL"} THEN "invalid"
    ELSE "valid"

\* _validate_trade_data: "valid", "invalid", or "raise" when the exception is
\* none of the (ValueError, TypeError) the function catches or is raised
\* outside its try block (`field not in trade_data` for a number or null)
validate_trade_data(trade_data) ==
    IF ~IsObject(trade_data)
    THEN (IF trade_data.k = "str" THEN "invalid" ELSE "raise")
    ELSE IF \E f \in {"action", "asset", "quantity", "price"} : f \notin DOMAIN trade_data
    THEN "invalid"
    ELSE IF ~ParseFloat(trade_data["quantity"]).ok THEN "invalid"
    ELSE IF ~ParseFloat(trade_data["price"]).ok THEN "invalid"
    ELSE IF trade_data["action"].k # "str" THEN "raise"
    ELSE IF Upper(trade_data["action"].s) \notin {"BUY", "SELL"} THEN "invalid"
    ELSE "valid"

\* a registry entry with a status outside the three of the state machine
BotEntry_pending(bot_name, wallet_name, api_endpoint) ==
    [name |-> bot_name, wallet_name |-> wallet_name,
     api_endpoint |-> api_endpoint, status |-> "pending"]

\* a registry entry, as register_bot writes it (api_endpoint: whether one is
\* configured; the key and the timestamp do not steer any branch)
BotEntry(bot_name, wallet_name, api_endpoint) ==
    [name |-> bot_name, wallet_name |-> wallet_name,
     api_endpoint |-> api_endpoint, status |-> "registered"]

\* simulate_bot_trade: a random BUY or SELL with its total value filled in
SimTrades ==
    { [action |-> Str(a), asset |-> Str("SOL"), quantity |-> Num(1),
       price |-> Num(2), total_value |-> Num(2)] : a \in {"BUY", "SELL"} }

\* what the endpoint of a bot answers: a transport failure (HTTP error,
\* timeout, undecodable body), a JSON value that is no list, or a list
BatchItems == {T_buy, T_hold}

RECURSIVE SeqsUpTo(_, _)
SeqsUpTo(S, n) ==
    IF n = 0 THEN { << >> }
    ELSE LET shorter == SeqsUpTo(S, n - 1)
         IN shorter \cup { Append(q, x) : q \in shorter, x \in S }

Sources ==
    { [kind |-> "error", items |-> << >>], [kind |-> "notlist", items |-> << >>] }
    \cup { [kind |-> "list", items |-> q] : q \in SeqsUpTo(BatchItems, MaxBatch) }

\* the same with elements the validator does not return from: a record whose
\* action is a number and an element that is no object
MixedBatchItems == BatchItems \cup {T_numaction, NotAnObject}

MixedSources ==
    { [kind |-> "list", items |-> q] : q \in SeqsUpTo(MixedBatchItems, MaxBatch) }

\* no request is made for a bot without an endpoint, no trade is simulated
\* for a bot with one
NoRequest == [kind |-> "none", items |-> << >>]
SourcesFor(entry) == IF entry.api_endpoint THEN Sources ELSE {NoRequest}
SimulatedFor(entry) ==
    IF entry.api_endpoint THEN {CHOOSE t \in SimTrades : TRUE} ELSE SimTrades

SelectValid(items) == SelectSeq(items, LAMBDA t : validate_trade_data(t) = "valid")

\* fetch_bot_trades: the validated trades; every failure gives the empty list
fetch_bot_trades(entry, source, simulated) ==
    IF ~entry.api_endpoint THEN << simulated >>
    ELSE IF source.kind # "list" THEN << >>
    ELSE IF \E i \in 1..Len(source.items) :
               validate_trade_data(source.items[i]) = "raise"
         THEN << >>
         ELSE SelectValid(source.items)

\* whether the bot's source delivered: simulation always does
SourceSucceeded(entry, source) == ~entry.api_endpoint \/ source.kind = "list"

\* ------------------------------------------------------- WalletManager
\* _setup_wallet_sheet, a1 being the outcome of worksheet.acell('A1'): keep a
\* sheet whose A1 was read and holds the summary title; otherwise (title
\* absent, or the read raised and the bare except passed)
\* _create_sheet_structure clears the sheet and writes the header rows
setup_wallet_sheet_on(rows, a1) ==
    IF a1 = "value" /\ Len(rows) >= 1 /\ rows[1] = HeaderRow("WALLET SUMMARY")
    THEN rows
    ELSE summary_headers

\* _setup_wallet_sheet when the read of A1 returns
setup_wallet_sheet(rows) == setup_wallet_sheet_on(rows, "value")

\* an add_trade that writes the row a second time when the first write failed
wallet_add_trade_at_retry(rows, next_row, trade_data, store) ==
    LET quantity == ParseFloat(Get(trade_data, "quantity", Num(0)))
        price == ParseFloat(Get(trade_data, "price", Num(0)))
        total_value == Get(trade_data, "total_value", Num(quantity.n * price.n))
        action == Get(trade_data, "action", Str(""))
        trade_row == [kind |-> "trade",
                      action |-> Upper(action.s),
                      asset |-> Get(trade_data, "asset", Str("")),
                      quantity |-> quantity.n,
                      price |-> price.n,
                      total_value |-> total_value.n,
                      formula |-> running_balance_formula(next_row)]
    IN IF store = "read_fail" \/ ~quantity.ok \/ ~price.ok \/ action.k # "str"
       THEN [ok |-> FALSE, rows |-> rows]
       ELSE [ok |-> TRUE, rows |-> UpdateRow(rows, next_row, trade_row)]

\* WalletManager.add_trade from the row number on: the return value and the
\* sheet afterwards
wallet_add_trade_at(rows, next_row, trade_data, store) ==
    LET quantity == ParseFloat(Get(trade_data, "quantity", Num(0)))
        price == ParseFloat(Get(trade_data, "price", Num(0)))
        total_value == Get(trade_data, "total_value", Num(quantity.n * price.n))
        action == Get(trade_data, "action", Str(""))
        \* date and notes are copied to the row like asset and steer nothing
        trade_row == [kind |-> "trade",
                      action |-> Upper(action.s),
                      asset |-> Get(trade_data, "asset", Str("")),
                      quantity |-> quantity.n,
                      price |-> price.n,
                      total_value |-> total_value.n,
                      formula |-> running_balance_formula(next_row)]
    IN IF store = "read_fail" \/ ~quantity.ok \/ ~price.ok \/ action.k # "str"
          \/ store = "write_fail"
       THEN [ok |-> FALSE, rows |-> rows]
       ELSE [ok |-> TRUE, rows |-> UpdateRow(rows, next_row, trade_row)]

\* WalletManager.add_trade: the return value and the sheet afterwards
wallet_add_trade(rows, trade_data, store) ==
    wallet_add_trade_at(rows, NextRow(rows), trade_data, store)

\* current_value read from the wrong summary cell (F2 instead of D2)
get_wallet_performance_wrong_cell(name, rows) ==
    [name |-> name,
     initial_investment |-> get_cell_value(CellB2(rows), 0),
     current_value |-> get_cell_value(CellF2(rows), 0),
     total_return |-> get_cell_value(CellF2(rows), 0),
     total_return_pct |-> FracZero,
     apy |-> get_cell_value(CellH2(rows), FracZero)]

\* get_wallet_performance without the test of initial_investment before the
\* division
get_wallet_performance_unguarded(name, rows) ==
    LET initial_investment == get_cell_value(CellB2(rows), 0)
        current_value == get_cell_value(CellD2(rows), 0)
    IN [name |-> name,
        initial_investment |-> initial_investment,
        current_value |-> current_value,
        total_return |-> get_cell_value(CellF2(rows), 0),
        total_return_pct |->
            Frac((current_value - initial_investment) * 100, initial_investment),
        apy |-> get_cell_value(CellH2(rows), FracZero)]

\* get_wallet_performance: the summary cells read through _get_cell_value
\* (total_return_pct is ((current/initial) - 1) * 100 as a fraction)
get_wallet_performance(name, rows) ==
    LET initial_investment == get_cell_value(CellB2(rows), 0)
        current_value == get_cell_value(CellD2(rows), 0)
        total_return == get_cell_value(CellF2(rows), 0)
        apy == get_cell_value(CellH2(rows), FracZero)
    IN [name |-> name,
        initial_investment |-> initial_investment,
        current_value |-> current_value,
        total_return |-> total_return,
        total_return_pct |->
            IF initial_investment > 0
            THEN FracTimes(FracMinusOne(Frac(current_value, initial_investment)), 100)
            ELSE FracZero,
        apy |-> apy]

\* get_trade_history: the non-empty rows from row 6 on, as trade dictionaries,
\* cut to the last `limit` ones when the limit is truthy
RECURSIVE HistoryFrom(_, _)
HistoryFrom(rows, r) ==
    IF r > Len(rows) THEN << >>
    ELSE IF rows[r].kind = "blank" THEN HistoryFrom(rows, r + 1)
    ELSE << [action |-> rows[r].action,
             asset |-> rows[r].asset,
             quantity |-> rows[r].quantity,
             price |-> rows[r].price,
             total_value |-> rows[r].total_value,
             running_balance |-> CellG(rows, r)] >> \o HistoryFrom(rows, r + 1)

\* the limit argument: None (the default) or an integer
NoLimit == [given |-> FALSE, n |-> 0]
Limit(n) == [given |-> TRUE, n |-> n]

\* `if limit`: None and 0 are both falsy
Truthy(limit) == limit.given /\ limit.n # 0

get_trade_history(rows, limit) ==
    IF Len(rows) < FirstTradeRow THEN << >>
    ELSE LET trades == HistoryFrom(rows, FirstTradeRow)
         IN IF Truthy(limit) /\ Len(trades) > limit.n
            THEN SubSeq(trades, Len(trades) - limit.n + 1, Len(trades))
            ELSE trades

\* ------------------------------------------------------------- the state
VARIABLES
    worksheets,       \* the spreadsheet: wallet name -> rows of its sheet
    wallet_managers,  \* PortfolioManager.wallet_managers, in insertion order
    added,            \* wallet name -> the payloads add_trade returned True for
    registered_bots,  \* BotConnector.registered_bots, in insertion order
    pc,               \* "idle", or "updating" inside update_all_bots
    todo,             \* update_all_bots: the bot names the loop has yet to visit
    results,          \* update_all_bots: the results dictionary
    processed,        \* update_all_bots: calls of process_bot_trades per bot
    calls,            \* caller -> its add_trade call between its read and write
    dashboard,        \* PortfolioDashboard: its worksheet and what the sheet holds
    last              \* the last call and what it returned

vars == << worksheets, wallet_managers, added, registered_bots, pc, todo,
           results, processed, calls, dashboard, last >>

ledger_vars == << worksheets, wallet_managers, added >>
bot_vars == << registered_bots, pc, todo, results, processed, calls, dashboard >>

\* the wallet table of the dashboard sheet (rows 8 and below, columns E..H)
\* has a row per wallet
TableRows == 1..Cardinality(Wallets)

\* PortfolioDashboard.__init__: no worksheet yet
NoDashboard ==
    [created |-> FALSE, table |-> [i \in TableRows |-> BlankRow], stamped |-> FALSE]

\* the callers that drive add_trade at the same time
Callers == {"t1", "t2"}
NoCall == [pc |-> "idle"]

InSeq(x, seq) == \E i \in 1..Len(seq) : seq[i] = x

BotNames == { registered_bots[i].name : i \in 1..Len(registered_bots) }
BotIndex(b) == CHOOSE i \in 1..Len(registered_bots) : registered_bots[i].name = b
Bot(b) == registered_bots[BotIndex(b)]

Init ==
    /\ worksheets = [w \in Wallets |-> << >>]
    /\ wallet_managers = << >>
    /\ added = [w \in Wallets |-> << >>]
    /\ registered_bots = << >>
    /\ pc = "idle"
    /\ todo = << >>
    /\ results = << >>
    /\ processed = [b \in Bots |-> 0]
    /\ calls = [t \in Callers |-> NoCall]
    /\ dashboard = NoDashboard
    /\ last = [op |-> "init"]

\* an add_wallet that builds the sheet structure anew on every call
portfolio_add_wallet_recreate(sheets, managers, w) ==
    [worksheets |-> [sheets EXCEPT ![w] = summary_headers],
     wallet_managers |-> IF InSeq(w, managers) THEN managers ELSE Append(managers, w)]

\* PortfolioManager.add_wallet: the sheets and the wallet set afterwards
portfolio_add_wallet(sheets, managers, w) ==
    IF InSeq(w, managers)
    THEN [worksheets |-> sheets, wallet_managers |-> managers]
    ELSE [worksheets |-> [sheets EXCEPT ![w] = setup_wallet_sheet(@)],
          wallet_managers |-> Append(managers, w)]

\* outcomes of the construction of a WalletManager: the worksheet cannot be
\* opened (get_or_create_worksheet re-raises), it is opened and A1 is read,
\* it is opened and the read of A1 raises
SetupOutcomes == {"open_fail", "value", "raise"}

\* PortfolioManager.add_wallet under such an outcome: whether it raised, the
\* sheets and the wallet set afterwards
portfolio_add_wallet_on(sheets, managers, w, setup) ==
    IF InSeq(w, managers)
    THEN [raised |-> FALSE, worksheets |-> sheets, wallet_managers |-> managers]
    ELSE IF setup = "open_fail"
    THEN [raised |-> TRUE, worksheets |-> sheets, wallet_managers |-> managers]
    ELSE [raised |-> FALSE,
          worksheets |-> [sheets EXCEPT ![w] = setup_wallet_sheet_on(@, setup)],
          wallet_managers |-> Append(managers, w)]

\* wallet_summaries that leaves out the wallets without a trade
wallet_summaries_nonempty(sheets, managers) ==
    LET all == [i \in 1..Len(managers) |->
                   get_wallet_performance(managers[i], sheets[managers[i]])]
    IN SelectSeq(all, LAMBDA p : p.current_value # 0)

\* get_portfolio_summary: the performance of every wallet, in the order of
\* wallet_managers.items()
wallet_summaries(sheets, managers) ==
    [i \in 1..Len(managers) |->
        get_wallet_performance(managers[i], sheets[managers[i]])]

\* total += performance[field] over the wallet summaries
RECURSIVE SumField(_, _)
SumField(summaries, field) ==
    IF summaries = << >> THEN 0
    ELSE SumField(SubSeq(summaries, 1, Len(summaries) - 1), field)
            + summaries[Len(summaries)][field]

\* a percentage that takes 1 off the ratio of the return
portfolio_return_pct_minus_one(total_return, total_invested) ==
    IF total_invested > 0
    THEN FracTimes(FracMinusOne(Frac(total_return, total_invested)), 100)
    ELSE FracZero

\* get_portfolio_summary: total_return_pct
portfolio_return_pct(total_return, total_invested) ==
    IF total_invested > 0
    THEN FracTimes(Frac(total_return, total_invested), 100)
    ELSE FracZero

\* PortfolioManager.get_portfolio_summary (the timestamp is left out)
get_portfolio_summary(sheets, managers) ==
    LET summaries == wallet_summaries(sheets, managers)
        total_value == SumField(summaries, "current_value")
        total_invested == SumField(summaries, "initial_investment")
        total_return == total_value - total_invested
    IN [total_portfolio_value |-> total_value,
        total_invested |-> total_invested,
        total_return |-> total_return,
        total_return_pct |-> portfolio_return_pct(total_return, total_invested),
        num_wallets |-> Len(managers),
        wallets |-> summaries]

\* a cell read that empties the sheet it reads
sheet_after_read_cleared(rows) == << >>

\* worksheet.acell(...).value: the sheet after the cells were read
sheet_after_read(rows) == rows

\* PortfolioManager.add_trade: the return value and the sheets afterwards
portfolio_add_trade(sheets, managers, w, trade_data, store) ==
    IF ~InSeq(w, managers)
    THEN [ok |-> FALSE, worksheets |-> sheets]
    ELSE LET r == wallet_add_trade(sheets[w], trade_data, store)
         IN [ok |-> r.ok, worksheets |-> [sheets EXCEPT ![w] = r.rows]]

add_wallet(w) ==
    /\ pc = "idle"
    /\ LET r == portfolio_add_wallet(worksheets, wallet_managers, w)
       IN /\ worksheets' = r.worksheets
          /\ wallet_managers' = r.wallet_managers
    /\ last' = [op |-> "add_wallet", wallet |-> w]
    /\ UNCHANGED << added, bot_vars >>

add_trade(w, trade_data, store) ==
    /\ pc = "idle"
    /\ Len(added[w]) < MaxTrades
    /\ LET r == portfolio_add_trade(worksheets, wallet_managers, w, trade_data, store)
       IN /\ worksheets' = r.worksheets
          /\ added' = [added EXCEPT ![w] = IF r.ok THEN Append(@, trade_data) ELSE @]
          /\ last' = [op |-> "add_trade", wallet |-> w, trade |-> trade_data,
                      ok |-> r.ok]
    /\ UNCHANGED << wallet_managers, bot_vars >>

\* BotConnector.register_bot: the entry is written (a second registration
\* replaces it in place), then the wallet is created if absent
register_bot(b, w, api_endpoint) ==
    /\ pc = "idle"
    /\ registered_bots' =
          IF b \in BotNames
          THEN [registered_bots EXCEPT ![BotIndex(b)] = BotEntry(b, w, api_endpoint)]
          ELSE Append(registered_bots, BotEntry(b, w, api_endpoint))
    /\ LET r == portfolio_add_wallet(worksheets, wallet_managers, w)
       IN /\ worksheets' = r.worksheets
          /\ wallet_managers' = r.wallet_managers
    /\ last' = [op |-> "register_bot", bot |-> b, wallet |-> w,
                api_endpoint |-> api_endpoint]
    /\ UNCHANGED << added, pc, todo, results, processed, calls,
                   dashboard >>

\* the loop of process_bot_trades over the fetched trades: the sheets, the
\* payloads that were added and success_count after trades i..
RECURSIVE ApplyTrades(_, _, _, _, _, _)
ApplyTrades(sheets, managers, w, trades, stores, i) ==
    IF i > Len(trades)
    THEN [worksheets |-> sheets, accepted |-> << >>, success_count |-> 0]
    ELSE LET r == portfolio_add_trade(sheets, managers, w, trades[i], stores[i])
             rest == ApplyTrades(r.worksheets, managers, w, trades, stores, i + 1)
         IN [worksheets |-> rest.worksheets,
             accepted |-> (IF r.ok THEN << trades[i] >> ELSE << >>) \o rest.accepted,
             success_count |-> (IF r.ok THEN 1 ELSE 0) + rest.success_count]

\* the value process_bot_trades returns
process_result(success_count) == success_count > 0

\* a cycle that marks the bot as failed
status_after_cycle_error == "error"

\* the status process_bot_trades leaves: its try block completed
status_after_cycle == "active"

\* BotConnector.process_bot_trades for a registered bot
process_bot_trades(b, source, simulated, stores) ==
    LET entry == Bot(b)
        w == entry.wallet_name
        trades == fetch_bot_trades(entry, source, simulated)
        r == ApplyTrades(worksheets, wallet_managers, w, trades, stores, 1)
    IN /\ Len(added[w]) + Len(trades) <= MaxTrades
       \* the try block: nothing in it raises (fetch_bot_trades and add_trade
       \* catch their own exceptions), so the except branch is never taken
       /\ worksheets' = r.worksheets
       /\ added' = [added EXCEPT ![w] = @ \o r.accepted]
       /\ registered_bots' =
             [registered_bots EXCEPT ![BotIndex(b)].status = status_after_cycle]
       /\ last' = [op |-> "process_bot_trades", bot |-> b,
                   source_ok |-> SourceSucceeded(entry, source),
                   status |-> status_after_cycle,
                   ok |-> process_result(r.success_count)]
       /\ UNCHANGED wallet_managers

\* process_bot_trades with every answer of the source and of the store
Cycle(b) ==
    \E source \in SourcesFor(Bot(b)), simulated \in SimulatedFor(Bot(b)) :
        \E stores \in [1..Len(fetch_bot_trades(Bot(b), source, simulated))
                          -> CycleStoreOutcomes] :
            process_bot_trades(b, source, simulated, stores)

\* a direct call of process_bot_trades (an unregistered name returns False)
ProcessBotTrades(b) ==
    /\ pc = "idle"
    /\ IF b \notin BotNames
       THEN /\ last' = [op |-> "process_bot_trades", bot |-> b, source_ok |-> FALSE,
                        status |-> "none", ok |-> FALSE]
            /\ UNCHANGED << ledger_vars, registered_bots >>
       ELSE Cycle(b)
    /\ UNCHANGED << pc, todo, results, processed, calls,
                   dashboard >>

\* the endpoint of a bot has a mixed batch ready as its next answer
MixedBatchReady(b) ==
    /\ pc = "idle"
    /\ b \in BotNames
    /\ Bot(b).api_endpoint
    /\ \E source \in MixedSources : last' = [op |-> "response", bot |-> b,
                                              source |-> source]
    /\ UNCHANGED << ledger_vars, bot_vars >>

\* process_bot_trades of that bot, with a store that takes every write
ProcessMixedBatch(b) ==
    /\ pc = "idle"
    /\ b \in BotNames
    /\ last.op = "response"
    /\ last.bot = b
    /\ \E simulated \in SimulatedFor(Bot(b)) :
          process_bot_trades(b, last.source, simulated,
              [i \in 1..Len(fetch_bot_trades(Bot(b), last.source, simulated)) |-> "ok"])
    /\ UNCHANGED << pc, todo, results, processed, calls,
                   dashboard >>

\* the next cycle of a bot is fixed: the answer of its endpoint (or the trade
\* simulated for it) and the answers of the store to the writes of the cycle
CycleReady(b) ==
    /\ pc = "idle"
    /\ b \in BotNames
    /\ \E source \in SourcesFor(Bot(b)), simulated \in SimulatedFor(Bot(b)) :
          \E stores \in [1..Len(fetch_bot_trades(Bot(b), source, simulated))
                            -> CycleStoreOutcomes] :
              last' = [op |-> "cycle", bot |-> b, source |-> source,
                       simulated |-> simulated, stores |-> stores]
    /\ UNCHANGED << ledger_vars, bot_vars >>

\* process_bot_trades of that bot in that cycle
ProcessReadyCycle(b) ==
    /\ pc = "idle"
    /\ b \in BotNames
    /\ last.op = "cycle"
    /\ last.bot = b
    /\ process_bot_trades(b, last.source, last.simulated, last.stores)
    /\ UNCHANGED << pc, todo, results, processed, calls,
                   dashboard >>

\* a loop that gives up at the first bot that failed
remaining_bots_abort(names, ok) == IF ok THEN Tail(names) ELSE << >>

\* the bots the loop of update_all_bots goes on to after one bot
remaining_bots(names, ok) == Tail(names)

\* room left for the trades of the simulated bots still to come
SimulatedLeft(names, w) ==
    Cardinality({ i \in 1..Len(names) :
                    Bot(names[i]).wallet_name = w /\ ~Bot(names[i]).api_endpoint })

\* update_all_bots: entry, results = {} and the iterator over the keys
UpdateAllBotsCall ==
    /\ pc = "idle"
    /\ LET names == [i \in 1..Len(registered_bots) |-> registered_bots[i].name]
       IN /\ \A w \in Wallets : Len(added[w]) + SimulatedLeft(names, w) <= MaxTrades
          /\ todo' = names
    /\ pc' = "updating"
    /\ results' = << >>
    /\ processed' = [b \in Bots |-> 0]
    /\ last' = [op |-> "update_all_bots"]
    /\ UNCHANGED << ledger_vars, registered_bots, calls,
                   dashboard >>

\* update_all_bots: one iteration of the loop
UpdateAllBotsStep ==
    /\ pc = "updating"
    /\ todo # << >>
    /\ LET b == Head(todo)
       IN /\ Cycle(b)
          /\ Len(added'[Bot(b).wallet_name])
                + SimulatedLeft(Tail(todo), Bot(b).wallet_name) <= MaxTrades
          /\ results' = [x \in DOMAIN results \cup {b} |->
                           IF x = b THEN last'.ok ELSE results[x]]
          /\ processed' = [processed EXCEPT ![b] = @ + 1]
          /\ todo' = remaining_bots(todo, last'.ok)
    /\ UNCHANGED << pc, calls,
                   dashboard >>

\* update_all_bots: the loop is over, the results are returned
UpdateAllBotsReturn ==
    /\ pc = "updating"
    /\ todo = << >>
    /\ pc' = "idle"
    /\ last' = [op |-> "update_all_bots_return", results |-> results,
                processed |-> processed]
    /\ results' = << >>
    /\ processed' = [b \in Bots |-> 0]
    /\ UNCHANGED << ledger_vars, registered_bots, todo, calls,
                   dashboard >>

\* PortfolioManager.get_portfolio_summary: get_wallet_performance reads the
\* summary cells of every wallet, the summary is returned
GetPortfolioSummary ==
    /\ pc = "idle"
    /\ last' = [op |-> "get_portfolio_summary",
                summary |-> get_portfolio_summary(worksheets, wallet_managers)]
    /\ worksheets' = [w \in Wallets |->
                        IF InSeq(w, wallet_managers)
                        THEN sheet_after_read(worksheets[w])
                        ELSE worksheets[w]]
    /\ UNCHANGED << wallet_managers, added, bot_vars >>

\* the limits asked for: none, 0, and up to one more than a wallet can hold
Limits == {NoLimit} \cup { Limit(n) : n \in 0..(MaxTrades + 1) }

\* WalletManager.get_trade_history of a wallet of the portfolio
GetTradeHistory(w, limit) ==
    /\ pc = "idle"
    /\ InSeq(w, wallet_managers)
    /\ last' = [op |-> "get_trade_history", wallet |-> w, limit |-> limit,
                trades |-> get_trade_history(worksheets[w], limit)]
    /\ UNCHANGED << ledger_vars, bot_vars >>

\* the ledger driven directly
Next ==
    \/ \E w \in Wallets : add_wallet(w)
    \/ \E w \in Wallets, td \in TradeInputs, store \in StoreOutcomes :
          add_trade(w, td, store)

Spec == Init /\ [][Next]_vars

\* the ledger driven directly, with a store that takes every write and with
\* payloads inside and outside the domain of a trade
DomainNext ==
    \/ \E w \in Wallets : add_wallet(w)
    \/ \E w \in Wallets, td \in DomainInputs : add_trade(w, td, "ok")

DomainSpec == Init /\ [][DomainNext]_vars

\* the ledger driven by the bot registry
BotNext ==
    \/ \E reg \in Registrations : register_bot(reg[1], reg[2], reg[3])
    \/ \E b \in Bots : ProcessBotTrades(b)
    \/ UpdateAllBotsCall
    \/ UpdateAllBotsStep
    \/ UpdateAllBotsReturn

BotSpec == Init /\ [][BotNext]_vars

\* the ledger driven by bots that answer with mixed batches
BatchNext ==
    \/ \E reg \in Registrations : register_bot(reg[1], reg[2], reg[3])
    \/ \E b \in Bots : MixedBatchReady(b)
    \/ \E b \in Bots : ProcessMixedBatch(b)

BatchSpec == Init /\ [][BatchNext]_vars

\* registrations that repeat a bot with other metadata or another wallet
Reregistrations ==
    Registrations \cup { <<"b1", "w1", FALSE>>, <<"b1", "w2", TRUE>> }

\* trades written between the registrations
RegisterNext ==
    \/ \E reg \in Reregistrations : register_bot(reg[1], reg[2], reg[3])
    \/ \E w \in Wallets, td \in {T_buy, T_sell} : add_trade(w, td, "ok")

RegisterSpec == Init /\ [][RegisterNext]_vars

\* summaries asked for between registrations and trades
SummaryNext ==
    \/ \E reg \in Registrations : register_bot(reg[1], reg[2], reg[3])
    \/ \E w \in Wallets, td \in {T_buy, T_sell} : add_trade(w, td, "ok")
    \/ GetPortfolioSummary

SummarySpec == Init /\ [][SummaryNext]_vars

\* histories asked for between trades
\* add_trade calls of one wallet that have read the sheet and not yet written
InFlight(w) == { t \in Callers : calls[t].pc = "write" /\ calls[t].wallet = w }

\* WalletManager.add_trade up to the row number: get_all_values is read and
\* next_row computed; nothing is locked
ReadNextRow(t, w, trade_data) ==
    /\ pc = "idle"
    /\ calls[t].pc = "idle"
    /\ InSeq(w, wallet_managers)
    /\ Len(added[w]) + Cardinality(InFlight(w)) < MaxTrades
    /\ calls' = [calls EXCEPT ![t] = [pc |-> "write", wallet |-> w,
                                      trade |-> trade_data,
                                      next_row |-> NextRow(worksheets[w])]]
    /\ UNCHANGED << ledger_vars, registered_bots, pc, todo, results, processed,
                    dashboard, last >>

\* WalletManager.add_trade from the row number on: the row is written at the
\* row number read before
WriteRow(t) ==
    /\ pc = "idle"
    /\ calls[t].pc = "write"
    /\ LET c == calls[t]
           r == wallet_add_trade_at(worksheets[c.wallet], c.next_row, c.trade, "ok")
       IN /\ worksheets' = [worksheets EXCEPT ![c.wallet] = r.rows]
          /\ added' = [added EXCEPT ![c.wallet] =
                                        IF r.ok THEN Append(@, c.trade) ELSE @]
          /\ last' = [op |-> "add_trade", wallet |-> c.wallet, trade |-> c.trade,
                      ok |-> r.ok]
    /\ calls' = [calls EXCEPT ![t] = NoCall]
    /\ UNCHANGED << wallet_managers, registered_bots, pc, todo, results,
                    processed, dashboard >>

\* the store's answer to the next call is fixed: it takes the call
\* (get_all_values and worksheet.update succeed), or the read or the write
\* raises
StoreReady(w, store) ==
    /\ pc = "idle"
    /\ last' = [op |-> "store", wallet |-> w, store |-> store]
    /\ UNCHANGED << ledger_vars, bot_vars >>

\* add_trade against that answer of the store
AddTradeOnStore(w, trade_data) ==
    /\ last.op = "store"
    /\ last.wallet = w
    /\ add_trade(w, trade_data, last.store)

\* the ledger on a store that fails now and then
StoreNext ==
    \/ \E w \in Wallets : add_wallet(w)
    \/ \E w \in Wallets, store \in StoreOutcomes : StoreReady(w, store)
    \/ \E w \in Wallets, td \in {T_buy, T_sell} : AddTradeOnStore(w, td)

StoreSpec == Init /\ [][StoreNext]_vars

\* a JSON object or array with n members
Dict(n) == [k |-> "dict", n |-> n, s |-> ""]
List(n) == [k |-> "list", n |-> n, s |-> ""]

\* `not v` is False: None, 0, "" and the empty collections are falsy, every
\* other value (nan included) is truthy
JsonTruthy(v) ==
    IF v.k = "null" THEN FALSE
    ELSE IF v.k = "num" THEN v.n # 0
    ELSE IF v.k = "str" THEN v.s # ""
    ELSE IF v.k \in {"dict", "list"} THEN v.n # 0
    ELSE TRUE

required_keys == {"spreadsheet_url", "credentials_path", "wallets"}

\* validate_config: "True", or the exception it raises
validate_config(config) ==
    IF \E key \in required_keys : key \notin DOMAIN config THEN "ValueError"
    ELSE IF ~JsonTruthy(config["wallets"]) THEN "ValueError"
    ELSE "True"

\* the configurations a config.json can hold: any of the keys of the example
\* file present or not, and any JSON value under wallets
ConfigKeys == required_keys \cup {"bots"}
WalletsValues ==
    {Dict(0), Dict(1), List(0), List(1), Null, Num(0), Num(5), Str(""), Str("w1")}
Configs ==
    { [key \in keys |-> IF key = "wallets" THEN v ELSE Str("x")] :
          keys \in SUBSET ConfigKeys, v \in WalletsValues }

\* load_config returned this dictionary
LoadConfig(config) ==
    /\ pc = "idle"
    /\ last' = [op |-> "load_config", config |-> config]
    /\ UNCHANGED << ledger_vars, bot_vars >>

\* validate_config on the loaded dictionary
ValidateConfig ==
    /\ pc = "idle"
    /\ last.op = "load_config"
    /\ last' = [op |-> "validate_config", config |-> last.config,
                result |-> validate_config(last.config)]
    /\ UNCHANGED << ledger_vars, bot_vars >>

ConfigNext ==
    \/ \E config \in Configs : LoadConfig(config)
    \/ ValidateConfig

ConfigSpec == Init /\ [][ConfigNext]_vars

\* PortfolioManager.add_wallet on a store that may fail
AddWalletOn(w, setup) ==
    /\ pc = "idle"
    /\ LET r == portfolio_add_wallet_on(worksheets, wallet_managers, w, setup)
       IN /\ worksheets' = r.worksheets
          /\ wallet_managers' = r.wallet_managers
          /\ last' = [op |-> "add_wallet", wallet |-> w, setup |-> setup,
                      raised |-> r.raised]
    /\ UNCHANGED << added, bot_vars >>

\* BotConnector.register_bot on a store that may fail: the entry is written
\* first, an exception of add_wallet leaves register_bot after that
RegisterBotOn(b, w, api_endpoint, setup) ==
    /\ pc = "idle"
    /\ registered_bots' =
          IF b \in BotNames
          THEN [registered_bots EXCEPT ![BotIndex(b)] = BotEntry(b, w, api_endpoint)]
          ELSE Append(registered_bots, BotEntry(b, w, api_endpoint))
    /\ LET r == portfolio_add_wallet_on(worksheets, wallet_managers, w, setup)
       IN /\ worksheets' = r.worksheets
          /\ wallet_managers' = r.wallet_managers
          /\ last' = [op |-> "register_bot", bot |-> b, wallet |-> w,
                      api_endpoint |-> api_endpoint, raised |-> r.raised]
    /\ UNCHANGED << added, pc, todo, results, processed, calls,
                   dashboard >>

\* the program is started again: a new PortfolioManager and BotConnector on
\* the spreadsheet of the run before
Restart ==
    /\ pc = "idle"
    /\ wallet_managers # << >>
    /\ wallet_managers' = << >>
    /\ registered_bots' = << >>
    /\ last' = [op |-> "restart"]
    /\ UNCHANGED << worksheets, added, pc, todo, results, processed, calls,
                   dashboard >>

\* wallets set up, filled and set up again after a restart
SetupNext ==
    \/ \E w \in Wallets, setup \in SetupOutcomes : AddWalletOn(w, setup)
    \/ \E w \in Wallets, td \in {T_buy, T_sell} : add_trade(w, td, "ok")
    \/ Restart

SetupSpec == Init /\ [][SetupNext]_vars

\* bots registered on a store that may fail
RegistryNext ==
    \/ \E reg \in Registrations, setup \in SetupOutcomes :
          RegisterBotOn(reg[1], reg[2], reg[3], setup)
    \/ \E w \in Wallets, setup \in SetupOutcomes : AddWalletOn(w, setup)

RegistrySpec == Init /\ [][RegistryNext]_vars

\* create_dashboard_sheet: the worksheet is opened, cleared and given its
\* headers; B2 holds the time of this call
create_dashboard_sheet(dash) ==
    [created |-> TRUE, table |-> [i \in TableRows |-> BlankRow], stamped |-> TRUE]

\* the row update_wallet_summary writes for a wallet
summary_row(wallet) ==
    [kind |-> "summary", name |-> wallet.name,
     current_value |-> wallet.current_value,
     total_return_pct |-> wallet.total_return_pct, apy |-> wallet.apy]

\* whether update_range wrote: with no worksheet (None) worksheet.update
\* raises AttributeError, which update_range catches like every failure
range_written(dash, write) == dash.created /\ write = "ok"

\* PortfolioDashboard.update_wallet_summary: the sheet afterwards and the
\* return value; writes[i] is the outcome of the i-th call of update_range
\* (one per wallet, then B2), whose return value is not looked at
update_wallet_summary(dash, wallet_data, writes) ==
    [dashboard |->
        [created |-> dash.created,
         table |-> [i \in TableRows |->
                      IF i <= Len(wallet_data) /\ range_written(dash, writes[i])
                      THEN summary_row(wallet_data[i])
                      ELSE dash.table[i]],
         stamped |-> range_written(dash, writes[Len(wallet_data) + 1])],
     ok |-> TRUE]

CreateDashboardSheet ==
    /\ pc = "idle"
    /\ dashboard' = create_dashboard_sheet(dashboard)
    /\ last' = [op |-> "create_dashboard_sheet"]
    /\ UNCHANGED << ledger_vars, registered_bots, pc, todo, results, processed,
                    calls >>

\* PortfolioManager.update_dashboard (run_update_cycle returns its result)
UpdateDashboard ==
    /\ pc = "idle"
    /\ \E writes \in [1..(Len(wallet_managers) + 1) -> {"ok", "fail"}] :
          LET r == update_wallet_summary(dashboard,
                       wallet_summaries(worksheets, wallet_managers), writes)
          IN /\ dashboard' = r.dashboard
             /\ last' = [op |-> "update_dashboard", writes |-> writes, ok |-> r.ok]
    /\ UNCHANGED << ledger_vars, registered_bots, pc, todo, results, processed,
                    calls >>

\* the ledger and its dashboard
DashboardNext ==
    \/ \E w \in Wallets : add_wallet(w)
    \/ \E w \in Wallets, td \in {T_buy, T_sell} : add_trade(w, td, "ok")
    \/ CreateDashboardSheet
    \/ UpdateDashboard

DashboardSpec == Init /\ [][DashboardNext]_vars

\* bots running update cycles whose errors are known
ObserveNext ==
    \/ \E reg \in Registrations : register_bot(reg[1], reg[2], reg[3])
    \/ \E b \in Bots : CycleReady(b)
    \/ \E b \in Bots : ProcessReadyCycle(b)

ObserveSpec == Init /\ [][ObserveNext]_vars

\* two callers adding trades to the wallets at the same time
ConcurrentNext ==
    \/ \E reg \in Registrations : register_bot(reg[1], reg[2], reg[3])
    \/ \E t \in Callers, w \in Wallets, td \in {T_buy, T_sell} :
          ReadNextRow(t, w, td)
    \/ \E t \in Callers : WriteRow(t)

ConcurrentSpec == Init /\ [][ConcurrentNext]_vars

HistoryNext ==
    \/ \E w \in Wallets : add_wallet(w)
    \/ \E w \in Wallets, td \in {T_buy, T_sell} : add_trade(w, td, "ok")
    \/ \E w \in Wallets, limit \in Limits : GetTradeHistory(w, limit)

HistorySpec == Init /\ [][HistoryNext]_vars

\* update_all_bots runs to its end once called
FairBotSpec ==
    BotSpec /\ WF_vars(UpdateAllBotsStep) /\ WF_vars(UpdateAllBotsReturn)

\* the records handed to _validate_trade_data: every choice of values for the
\* four required fields, with all of them present or some of them absent
required_fields == {"action", "asset", "quantity", "price"}

ActionValues ==
    { Str(a) : a \in {"buy", "BUY", "Buy", "sell", "SELL", "sElL", "HOLD", ""} }
    \cup {Num(1), Null}
NumberValues ==
    {Num(1), Num(0), Str("2"), Str("abc"), Str("nan"), Null, NaN, Infinity}
PriceValues == {Num(2), Str("abc"), Null, NaN}

FieldValues ==
    [action : ActionValues, asset : {Str("BTC")}, quantity : NumberValues,
     price : PriceValues]

PresentFields == {required_fields} \cup { required_fields \ {f} : f \in required_fields }

ValidatorInputs ==
    { [f \in present |-> values[f]] : present \in PresentFields, values \in FieldValues }

\* a record is handed to the validator
ValidatorInit ==
    /\ worksheets = [w \in Wallets |-> << >>]
    /\ wallet_managers = << >>
    /\ added = [w \in Wallets |-> << >>]
    /\ registered_bots = << >>
    /\ pc = "idle"
    /\ todo = << >>
    /\ results = << >>
    /\ processed = [b \in Bots |-> 0]
    /\ calls = [t \in Callers |-> NoCall]
    /\ dashboard = NoDashboard
    /\ \E trade_data \in ValidatorInputs :
          last = [op |-> "trade_data", trade |-> trade_data]

\* BotConnector._validate_trade_data: reads its argument, writes nothing
ValidateTradeData ==
    /\ last.op = "trade_data"
    /\ last' = [op |-> "_validate_trade_data", trade |-> last.trade,
                result |-> validate_trade_data(last.trade)]
    /\ UNCHANGED << ledger_vars, bot_vars >>

ValidatorSpec == ValidatorInit /\ [][ValidateTradeData]_vars

\* ------------------------------------------------------------ the claims
\* what a payload says: its action in upper case, its total value
ActionOf(td) == Upper(Get(td, "action", Str("")).s)
TotalOf(td) ==
    Get(td, "total_value",
        Num(ParseFloat(Get(td, "quantity", Num(0))).n
            * ParseFloat(Get(td, "price", Num(0))).n)).n

IsBuySell(td) == validate_trade_data(td) = "valid"

\* sum of the signed total values of the first i payloads
RECURSIVE SignedSum(_, _)
SignedSum(tds, i) ==
    IF i = 0 THEN 0
    ELSE SignedSum(tds, i - 1) + SignedValue(ActionOf(tds[i]), TotalOf(tds[i]))

\* sum of the total values of the BUY payloads among the first i
RECURSIVE BuySum(_, _)
BuySum(tds, i) ==
    IF i = 0 THEN 0
    ELSE BuySum(tds, i - 1) + (IF ActionOf(tds[i]) = "BUY" THEN TotalOf(tds[i]) ELSE 0)

History(w) == get_trade_history(worksheets[w], NoLimit)
Performance(w) == get_wallet_performance(w, worksheets[w])
AllBuySell(w) == \A i \in 1..Len(added[w]) : IsBuySell(added[w][i])

\* the trade a payload becomes once stored
StoredForm(td) ==
    [action |-> ActionOf(td),
     asset |-> Get(td, "asset", Str("")),
     quantity |-> ParseFloat(Get(td, "quantity", Num(0))).n,
     price |-> ParseFloat(Get(td, "price", Num(0))).n,
     total_value |-> TotalOf(td)]

SameTrade(h, td) ==
    [f \in DOMAIN StoredForm(td) |-> h[f]] = StoredForm(td)

\* C1: for every sequence of BUY/SELL trades added to a wallet, the running
\* balance stored for the i-th added trade is the sum of the signed total
\* values of trades 1..i.
C1_RunningBalanceIsSignedSum ==
    \A w \in Wallets :
        AllBuySell(w) =>
            \A i \in 1..Len(added[w]) :
                /\ Len(History(w)) >= i
                /\ History(w)[i].running_balance = SignedSum(added[w], i)

\* C2: the ledger is append-only: a successful add_trade grows the stored
\* trade rows of its wallet by exactly one and leaves the rows stored before
\* as they were.
C2_AppendOnly ==
    [][\A w \in Wallets :
          added'[w] # added[w] =>
              /\ Len(History(w)') = Len(History(w)) + 1
              /\ SubSeq(History(w)', 1, Len(History(w))) = History(w)]_vars

\* C3: after N successful add_trade calls on a fresh wallet, get_trade_history
\* with no limit returns exactly those N trades in the order they were added.
C3_HistoryRoundTrip ==
    \A w \in Wallets :
        /\ Len(History(w)) = Len(added[w])
        /\ \A i \in 1..Len(added[w]) : SameTrade(History(w)[i], added[w][i])

\* C4: a record the validator rejects, submitted through add_trade, is
\* refused (add_trade returns False) and the number of stored trades of the
\* wallet does not change.
C4_RejectedRecordLeavesLedger ==
    [][\A w \in Wallets :
          (/\ last'.op = "add_trade"
           /\ last'.wallet = w
           /\ validate_trade_data(last'.trade) # "valid") =>
              /\ ~last'.ok
              /\ Len(History(w)') = Len(History(w))]_vars

\* C8: the cost basis (initial_investment) of a wallet never decreases.
C8_CostBasisMonotonic ==
    [][\A w \in Wallets :
          Performance(w)'.initial_investment >= Performance(w).initial_investment]_vars

\* C9: initial_investment is the sum of total_value over all BUY trades added,
\* and total_return is current_value minus initial_investment.
C9_CostBasisIsBuySum ==
    \A w \in Wallets :
        /\ Performance(w).initial_investment = BuySum(added[w], Len(added[w]))
        /\ Performance(w).total_return =
              Performance(w).current_value - Performance(w).initial_investment

\* C10: current_value is the running balance stored for the most recently
\* added trade, and 0 for a wallet without trades.
C10_CurrentValueIsLastBalance ==
    \A i \in 1..Len(wallet_managers) :
        LET w == wallet_managers[i]
            h == History(w)
        IN IF added[w] = << >>
           THEN Performance(w).current_value = 0
           ELSE /\ h # << >>
                /\ SameTrade(h[Len(h)], added[w][Len(added[w])])
                /\ Performance(w).current_value = h[Len(h)].running_balance

C10_Witness ==
    \E w \in Wallets :
        /\ Len(added[w]) = 2
        /\ Performance(w).current_value < 0

StatusOf(b) == Bot(b).status

\* C5: a cycle whose source failed returns False and leaves the bot in
\* status 'error'; a cycle whose source succeeded leaves it 'active'.
C5_SourceFailureSetsError ==
    [][\A b \in Bots :
          (last'.op = "process_bot_trades" /\ last'.bot = b /\ b \in BotNames) =>
              IF last'.source_ok
              THEN StatusOf(b)' = "active"
              ELSE ~last'.ok /\ StatusOf(b)' = "error"]_vars

\* C6: update_all_bots terminates, calls process_bot_trades exactly once for
\* every registered bot and returns exactly one boolean per registered bot,
\* whichever bots fail.
C6_FailureIsolation ==
    /\ [](pc = "updating" =>
            \A b \in Bots :
                /\ processed[b] <= 1
                /\ (processed[b] = 1) = (b \in DOMAIN results)
                /\ InSeq(b, todo) = (b \in BotNames /\ processed[b] = 0))
    /\ [](last.op = "update_all_bots_return" =>
            /\ DOMAIN last.results = BotNames
            /\ \A b \in BotNames : last.results[b] \in BOOLEAN
            /\ \A b \in Bots : last.processed[b] = (IF b \in BotNames THEN 1 ELSE 0))
    /\ (pc = "updating" ~> pc = "idle")

C6_Witness ==
    /\ last.op = "update_all_bots_return"
    /\ Len(registered_bots) = 3
    /\ ~last.results[registered_bots[1].name]
    /\ ~last.results[registered_bots[2].name]
    /\ last.results[registered_bots[3].name]

\* C7: the boolean of a cycle is True exactly when the cycle succeeded: True
\* when the fetch succeeded and the status was set to 'active', False only
\* when the cycle failed.
C7_BooleanReportsCycleSuccess ==
    [][\A b \in Bots :
          (last'.op = "process_bot_trades" /\ last'.bot = b /\ b \in BotNames) =>
              (last'.ok = (last'.source_ok /\ StatusOf(b)' = "active"))]_vars

\* C11: in every ledger state whose cost basis is 0 (no trades, only SELL
\* trades, or any other), get_wallet_performance returns total_return_pct = 0
\* and apy = 0; apy is also 0 whenever the current value is not positive.
C11_ZeroCostBasisGivesZeroReturns ==
    \A w \in Wallets :
        LET p == Performance(w)
        IN /\ p.initial_investment = 0 =>
                  FracIsZero(p.total_return_pct) /\ FracIsZero(p.apy)
           /\ p.current_value <= 0 => FracIsZero(p.apy)

\* a wallet holding only a SELL trade
C11_Witness ==
    \E w \in Wallets :
        /\ added[w] # << >>
        /\ Performance(w).initial_investment = 0
        /\ Performance(w).current_value < 0
        /\ FracIsZero(Performance(w).apy)

\* what the validator was handed and what it answered
Validated == last.op = "_validate_trade_data"
HasAllFields(td) == required_fields \subseteq DOMAIN td
NumericFields(td) == ParseFloat(td["quantity"]).ok /\ ParseFloat(td["price"]).ok

\* C12: the validator rejects a record when one of action, asset, quantity,
\* price is absent, and when its action, compared without regard to case, is
\* not BUY or SELL; it accepts a record with the four fields, numeric quantity
\* and price and an action that is BUY or SELL in any letter case; it changes
\* no state.
C12_ValidatorContract ==
    [][last'.op = "_validate_trade_data" =>
          LET td == last'.trade
              result == last'.result
          IN /\ ~HasAllFields(td) => result = "invalid"
             /\ (HasAllFields(td) /\ td["action"].k = "str"
                   /\ Upper(td["action"].s) \notin {"BUY", "SELL"}) =>
                      result = "invalid"
             /\ (HasAllFields(td) /\ td["action"].k # "str") => result # "valid"
             /\ (HasAllFields(td) /\ NumericFields(td) /\ td["action"].k = "str"
                   /\ Upper(td["action"].s) \in {"BUY", "SELL"}) =>
                      result = "valid"
             /\ UNCHANGED << ledger_vars, bot_vars >>]_vars

\* a record with a mixed-case action and a numeric string was accepted
C12_Witness ==
    /\ Validated
    /\ last.trade = [action |-> Str("sElL"), asset |-> Str("BTC"),
                     quantity |-> Str("2"), price |-> Num(2)]
    /\ last.result = "valid"

IsFiniteNumber(v) == ParseFloat(v).ok /\ ParseFloat(v).finite

\* C13: the validator rejects every record whose quantity or price cannot be
\* parsed as a finite real number: non-numeric strings, null, NaN and
\* infinity.
C13_RejectsNonFiniteNumbers ==
    [][last'.op = "_validate_trade_data" =>
          LET td == last'.trade
          IN (/\ HasAllFields(td)
              /\ ~(IsFiniteNumber(td["quantity"]) /\ IsFiniteNumber(td["price"]))) =>
                 last'.result # "valid"]_vars

\* the quantity a payload carries (0 when it has none, as add_trade reads it)
QuantityOf(td) == ParseFloat(Get(td, "quantity", Num(0)))

\* C14: every trade stored in a wallet has action BUY or SELL and a quantity
\* above 0; add_trade of a record whose quantity is 0 or less fails and stores
\* nothing.
C14_StoredTradesAreWellFormed ==
    [][\A w \in Wallets :
          /\ \A i \in 1..Len(History(w)') :
                /\ History(w)'[i].action \in {"BUY", "SELL"}
                /\ History(w)'[i].quantity > 0
          /\ (/\ last'.op = "add_trade"
              /\ last'.wallet = w
              /\ QuantityOf(last'.trade).ok
              /\ QuantityOf(last'.trade).n <= 0) =>
                 /\ ~last'.ok
                 /\ History(w)' = History(w)]_vars

\* C15: a validation failure never aborts a batch: whatever invalid records a
\* fetched batch holds (records with an action that is no string and
\* elements that are no objects included), every valid record of the batch is
\* appended to the bot's wallet.
C15_InvalidRecordsDoNotAbortBatch ==
    [][\A b \in Bots :
          (/\ last.op = "response"
           /\ last.bot = b
           /\ last'.op = "process_bot_trades") =>
              added'[Bot(b).wallet_name]
                 = added[Bot(b).wallet_name] \o SelectValid(last.source.items)]_vars

\* C16: a cycle whose fetch succeeded but accepted no trade leaves the bot
\* 'active'; the status of a bot becomes 'error' only in a cycle whose fetch
\* failed.
C16_EmptyCycleStaysActive ==
    [][\A b \in Bots :
          /\ (/\ last'.op = "process_bot_trades"
              /\ last'.bot = b
              /\ b \in BotNames
              /\ last'.source_ok
              /\ ~last'.ok) => StatusOf(b)' = "active"
          /\ (/\ b \in BotNames'
              /\ StatusOf(b)' = "error"
              /\ (b \in BotNames => StatusOf(b) # "error")) =>
                 /\ last'.op = "process_bot_trades"
                 /\ last'.bot = b
                 /\ ~last'.source_ok]_vars

\* a bot whose endpoint answered and whose cycle accepted nothing
C16_Witness ==
    /\ last.op = "process_bot_trades"
    /\ last.bot \in BotNames
    /\ Bot(last.bot).api_endpoint
    /\ last.source_ok
    /\ ~last.ok
    /\ StatusOf(last.bot) = "active"

BotStatuses == {"registered", "active", "error"}

\* C17: a bot stays registered whatever its cycles do (no operation removes
\* a bot, so a bot in 'error' is there for the next cycle), its status is
\* always one of registered, active, error, and a cycle that succeeds sets
\* the status 'active' whatever it was before.
C17_BotsStayRegistered ==
    /\ \A b \in Bots : [](b \in BotNames => [](b \in BotNames))
    /\ [](\A b \in BotNames : StatusOf(b) \in BotStatuses)
    /\ [][\A b \in Bots :
             (last'.op = "process_bot_trades" /\ last'.bot = b /\ last'.ok) =>
                 /\ b \in BotNames'
                 /\ StatusOf(b)' = "active"]_vars

\* three bots, the one whose cycle has just succeeded is active, another one
\* is still as it was registered
C17_Witness ==
    /\ Len(registered_bots) = 3
    /\ last.op = "process_bot_trades"
    /\ last.ok
    /\ StatusOf(last.bot) = "active"
    /\ \E b \in BotNames : StatusOf(b) = "registered"

\* C18: register_bot for a wallet that exists already (the same bot again, or
\* a second bot on the wallet) leaves the wallet set and every stored trade
\* as they were, and the entry of the bot carries the wallet and the endpoint
\* of the latest registration.
C18_RegisterBotIdempotentOnLedger ==
    [][\A b \in Bots :
          (last'.op = "register_bot" /\ last'.bot = b) =>
              /\ InSeq(last'.wallet, wallet_managers) =>
                    /\ worksheets' = worksheets
                    /\ wallet_managers' = wallet_managers
                    /\ added' = added
              /\ b \in BotNames'
              /\ StatusOf(b)' = "registered"
              /\ Bot(b)'.wallet_name = last'.wallet
              /\ Bot(b)'.api_endpoint = last'.api_endpoint
              /\ Len(registered_bots') =
                    Len(registered_bots) + (IF b \in BotNames THEN 0 ELSE 1)]_vars

\* b1, registered before b2 on a wallet that holds a trade, has just been
\* registered again, now without an endpoint
C18_Witness ==
    /\ last.op = "register_bot"
    /\ last.bot = "b1"
    /\ last.wallet = "w1"
    /\ ~last.api_endpoint
    /\ Len(registered_bots) = 2
    /\ registered_bots[1].name = "b1"
    /\ registered_bots[2].wallet_name = "w1"
    /\ History("w1") # << >>

PortfolioSummary == get_portfolio_summary(worksheets, wallet_managers)
WalletSet == { wallet_managers[i] : i \in 1..Len(wallet_managers) }

\* the sum of a performance figure over a set of wallets
RECURSIVE SumOverWallets(_, _)
SumOverWallets(S, field) ==
    IF S = {} THEN 0
    ELSE LET w == CHOOSE x \in S : TRUE
         IN Performance(w)[field] + SumOverWallets(S \ {w}, field)

\* C19: get_portfolio_summary returns one wallet summary per registered
\* wallet, in the order the wallets were registered; num_wallets is the
\* number of wallets, total_portfolio_value the sum of their current values
\* and total_invested the sum of their initial investments.
C19_SummaryAggregatesWallets ==
    LET s == PortfolioSummary
    IN /\ Len(s.wallets) = Len(wallet_managers)
       /\ \A i \in 1..Len(wallet_managers) :
             s.wallets[i] = Performance(wallet_managers[i])
       /\ s.num_wallets = Cardinality(WalletSet)
       /\ s.total_portfolio_value = SumOverWallets(WalletSet, "current_value")
       /\ s.total_invested = SumOverWallets(WalletSet, "initial_investment")

\* w2 was registered before w1, one holds a BUY and the other a SELL
C19_Witness ==
    /\ wallet_managers = << "w2", "w1" >>
    /\ PortfolioSummary.wallets[1].name = "w2"
    /\ PortfolioSummary.total_invested > 0
    /\ PortfolioSummary.total_portfolio_value < 0
    /\ \A w \in Wallets : added[w] # << >>

\* C20: total_return is total_portfolio_value - total_invested, and
\* total_return_pct is (total_portfolio_value / total_invested - 1) * 100 when
\* total_invested is above 0 and 0 otherwise, so the percentage of a portfolio
\* of one wallet is the percentage of that wallet.
C20_PortfolioReturnPct ==
    LET s == PortfolioSummary
    IN /\ s.total_return = s.total_portfolio_value - s.total_invested
       /\ IF s.total_invested > 0
          THEN FracEq(s.total_return_pct,
                      FracTimes(FracMinusOne(Frac(s.total_portfolio_value,
                                                  s.total_invested)), 100))
          ELSE FracIsZero(s.total_return_pct)
       /\ Len(wallet_managers) = 1 =>
             FracEq(s.total_return_pct, Performance(wallet_managers[1]).total_return_pct)

\* two wallets, money invested, and a portfolio value that differs from it
C20_Witness ==
    /\ Len(wallet_managers) = 2
    /\ PortfolioSummary.total_invested > 0
    /\ PortfolioSummary.total_return # 0
    /\ ~FracIsZero(PortfolioSummary.total_return_pct)

\* the totals of a portfolio summary
Totals(s) == << s.total_portfolio_value, s.total_invested, s.total_return,
                s.total_return_pct >>

\* C21: get_portfolio_summary is read-only: a call changes no stored trade,
\* no bot registration and no wallet set, and a call that follows another one
\* with no add_trade in between returns the same totals.
C21_SummaryIsReadOnly ==
    [][/\ last'.op = "get_portfolio_summary" =>
             /\ UNCHANGED << worksheets, wallet_managers, added, registered_bots >>
             /\ \A w \in Wallets : History(w)' = History(w)
             /\ last'.summary = get_portfolio_summary(worksheets', wallet_managers')
       /\ (last.op = "get_portfolio_summary" /\ last'.op = "get_portfolio_summary") =>
             last'.summary = last.summary
       /\ last'.op # "add_trade" =>
             Totals(get_portfolio_summary(worksheets', wallet_managers'))
                = Totals(PortfolioSummary)]_vars

\* a summary returned for two wallets, a bot registry and stored trades
C21_Witness ==
    /\ last.op = "get_portfolio_summary"
    /\ last.summary.num_wallets = 2
    /\ last.summary.total_invested > 0
    /\ Len(registered_bots) = 3
    /\ \A w \in Wallets : History(w) # << >>

Min(a, b) == IF a <= b THEN a ELSE b

\* C22: get_trade_history(limit) returns the most recent `limit` trades in
\* append order, exactly min(limit, number of trades) of them for every limit
\* given (0 and limits above the length of the history included), and the
\* whole history when no limit is given.
C22_HistoryLimit ==
    last.op = "get_trade_history" =>
        LET h == History(last.wallet)
            n == Len(h)
        IN IF last.limit.given
           THEN /\ Len(last.trades) = Min(last.limit.n, n)
                /\ last.trades = SubSeq(h, n - Min(last.limit.n, n) + 1, n)
           ELSE last.trades = h

\* C23: appends to one wallet are serialized: when two add_trade calls on the
\* same wallet run concurrently, in every interleaving of their read-next-row
\* and write-row steps both trades end up stored in distinct rows and the
\* running-balance chain is consistent.
C23_ConcurrentAppendsSerialized ==
    \A w \in Wallets :
        InFlight(w) = {} =>
            /\ Len(History(w)) = Len(added[w])
            /\ \A i \in 1..Len(added[w]) :
                  History(w)[i].running_balance = SignedSum(added[w], i)

\* what went wrong in a cycle: whether the fetch failed, how many records the
\* validator rejected, how many appends failed
CycleErrors(entry, source, simulated, stores) ==
    [fetch_failed |-> entry.api_endpoint /\ source.kind # "list",
     rejected |-> IF entry.api_endpoint /\ source.kind = "list"
                  THEN Len(source.items) - Len(SelectValid(source.items))
                  ELSE 0,
     failed |-> Cardinality({ i \in DOMAIN stores : stores[i] # "ok" })]

\* what the caller of process_bot_trades has afterwards: the return value and
\* the status of the bot
CycleObserved(entry, source, simulated, stores) ==
    [ok |-> process_result(Cardinality({ i \in DOMAIN stores : stores[i] = "ok" })),
     status |-> status_after_cycle]

\* C24: no error is silently dropped: the trades rejected by validation, the
\* appends that failed and a fetch failure of a cycle are observable by the
\* caller of process_bot_trades, that is, two cycles of a bot the caller
\* observes alike had the same errors.
C24_NoErrorSilentlyDropped ==
    [][(last.op = "cycle" /\ last'.op = "process_bot_trades") =>
          LET entry == Bot(last.bot)
          IN \A source \in SourcesFor(entry), simulated \in SimulatedFor(entry) :
                \A stores \in [1..Len(fetch_bot_trades(entry, source, simulated))
                                  -> CycleStoreOutcomes] :
                    CycleObserved(entry, source, simulated, stores)
                        = [ok |-> last'.ok, status |-> last'.status]
                    => CycleErrors(entry, source, simulated, stores)
                          = CycleErrors(entry, last.source, last.simulated,
                                        last.stores)]_vars

\* C25: a store failure is surfaced, not retried: when the sheet write or the
\* sheet read fails during add_trade, add_trade returns False (it returns, so
\* no exception leaves it), no second write puts the row on the sheet, and the
\* stored trades of the wallet are unchanged.
C25_StoreFailureSurfaced ==
    [][(last.op = "store" /\ last.store # "ok" /\ last'.op = "add_trade") =>
          /\ last'.ok = FALSE
          /\ worksheets' = worksheets
          /\ added' = added]_vars

C25_Witness ==
    /\ last.op = "add_trade"
    /\ ~last.ok
    /\ InSeq(last.wallet, wallet_managers)
    /\ IsBuySell(last.trade)
    /\ Len(History(last.wallet)) = 1

\* a dictionary or a list with at least one member, or a non-empty string
NonEmptyCollection(v) ==
    \/ v.k \in {"dict", "list"} /\ v.n > 0
    \/ v.k = "str" /\ v.s # ""

\* C26: validate_config returns True exactly for the configurations that hold
\* spreadsheet_url, credentials_path and wallets with a non-empty wallets
\* collection, and raises ValueError for every other configuration.
C26_ValidateConfigExact ==
    last.op = "validate_config" =>
        IF /\ required_keys \subseteq DOMAIN last.config
           /\ NonEmptyCollection(last.config["wallets"])
        THEN last.result = "True"
        ELSE last.result = "ValueError"

\* C27: setting up a WalletManager for a wallet whose sheet already holds
\* trades never erases them: in every outcome of the header check in
\* _setup_wallet_sheet (header found, header absent, header read raising) the
\* trade rows written earlier are still present afterwards.
C27_SetupKeepsTrades ==
    [][\A w \in Wallets :
          (last'.op = "add_wallet" /\ last'.wallet = w) =>
              get_trade_history(worksheets'[w], NoLimit) = History(w)]_vars

\* C28: in every reachable state every bot in the registry maps to a wallet
\* that exists in the portfolio's wallet set, also when the creation of the
\* wallet failed during register_bot.
C28_RegisteredBotsHaveWallets ==
    \A i \in 1..Len(registered_bots) :
        InSeq(registered_bots[i].wallet_name, wallet_managers)

\* C29: update_dashboard (and run_update_cycle) returns True only if every
\* wallet's summary row and the timestamp were actually written to the
\* dashboard sheet; if a write failed or the sheet was never created it
\* returns False.
C29_DashboardUpdateReported ==
    (last.op = "update_dashboard" /\ last.ok) =>
        /\ dashboard.created
        /\ dashboard.stamped
        /\ \A i \in 1..Len(wallet_managers) :
              dashboard.table[i] = summary_row(Performance(wallet_managers[i]))

====
